---- MODULE Spec2Model ----
(***************************************************************************)
(* Model of the Pocket Relay data-collect plugin: the Blaze packet framing *)
(* (servers/packet.rs), the discovery session (servers/retriever.rs) and   *)
(* the relay accept loop and session handler (servers/main.rs).            *)
(***************************************************************************)
EXTENDS Integers, Sequences, FiniteSets, TLC

VARIABLES
    \* --- header round trip (PacketHeader::write / PacketHeader::read)
    hh,         \* the header handed to write
    hlen,       \* the content length handed to write
    hwire,      \* the bytes write put into dst
    hrd,        \* the result of read on those bytes
    hpc,        \* "new" | "written" | "read"
    \* --- streaming codec (PacketCodec over one pending buffer)
    corig,      \* the packets that were encoded onto the wire (<<>> for raw frames)
    cwf,        \* TRUE when the wire is the encoding of corig
    cwire,      \* bytes of the stream not yet appended to the pending buffer
    cbuf,       \* the pending buffer (src of decode)
    cdec,       \* packets returned by decode so far, not yet re-encoded
    cout,       \* packets returned by decode so far, all of them
    clast,      \* the last decode call: buffer before, result, buffer after
    cframesIn,  \* the byte frames consumed by successful decodes
    cframesOut, \* the byte frames written by encode for the decoded packets
    \* --- discovery session (OfficialSession)
    sid,        \* OfficialSession.id: the id of the next request packet
    spc,        \* "off" | "idle" | "wait" (in expect_response) | "dead" (panicked)
    scall,      \* the request method that is running ("none" between calls)
    sreq,       \* `header`: the header of the request of the running or last call
    sstream,    \* packets the peer has sent that were not read yet
    send,       \* what the stream does once sstream is empty: "eof" | "ioerr" | "open"
    sstart,     \* sstream when the running or last call began to wait
    sres,       \* the result of the last call
    scur,       \* sequence number carried by the last request (-1: none)
    slastOk,    \* whether the send of the last request succeeded
    nOk,        \* number of requests of the session whose send succeeded
    nret,       \* number of those whose call has returned
    \* --- path matching (PacketHeader::path_matches)
    pa,         \* the header path_matches is called on
    pb,         \* the header it is compared with
    pres,       \* "none", or the results of the calls on (a, b), (b, a), (a, a)
    \* --- response construction (Packet::new_response and its variants)
    qp,         \* the packet a response is built for
    qres,       \* the responses built: new_response, response_empty, response
    \* --- instance discovery (OfficialInstance::obtain)
    opc,        \* obtain: "off" | "lookup" | "connect" | "request" | "done"
    osys,       \* what the system DNS lookup yielded
    odoh,       \* what the DNS-over-HTTPS request yielded (when it was made)
    olook,      \* the result of lookup_host and the path it came from
    oconns,     \* the connections obtain has opened: <<host, port>> each
    oreq,       \* the result of session.request
    ores,       \* the result of obtain
    \* --- relay (start_server and handle_blaze)
    lpc,        \* start_server: "off" | "bind" | "obtain" | "accept" | "join" | "exit"
    naccepted,  \* client connections accepted so far; the last one is joined on
    listener,   \* the TcpListener on MAIN_PORT: "none" | "bound" | "dropped"
    nobtain,    \* calls of OfficialInstance::obtain made by start_server
    instance,   \* `ret`: the instance obtain returned (NoInstance before)
    lerr,       \* the failures start_server reported through error_message
    uplog,      \* the calls of ret.stream(): client, host, port, outcome
    SESSION_ID, \* the static AtomicU32
    idlog,      \* the ids fetch_add returned, in the order they were taken
    hst,        \* handle_blaze per client: "none" | "connect" | "select" | "send" | "returned"
    hid,        \* per client: the session id (0 before it is taken)
    rorig,      \* per client and side: the packets that side's peer sends
    rwire,      \* per client and side: bytes sent by the peer, not yet in the read buffer
    rbuf,       \* per client and side: the read buffer of the Framed stream
    rend,       \* per client and side: "open" | "eof" | "err", met when rwire is empty
    rread,      \* per client and side: packets next() returned
    held,       \* per client: the packet being sent and the side it goes to
    rsent,      \* per client and side: packets whose send to that side succeeded
    rout,       \* per client and side: the bytes encode wrote for those packets
    rfail,      \* per client and side: whether a send to that side has failed
    rdrop       \* per client and side: packets whose send to that side failed

headerVars == <<hh, hlen, hwire, hrd, hpc>>
codecVars == <<corig, cwf, cwire, cbuf, cdec, cout, clast, cframesIn, cframesOut>>
sessionVars == <<sid, spc, scall, sreq, sstream, send, sstart, sres, scur, slastOk, nOk, nret>>
pathVars == <<pa, pb, pres>>
responseVars == <<qp, qres>>
obtainVars == <<opc, osys, odoh, olook, oconns, oreq, ores>>
loopVars == <<lpc, naccepted>>
startVars == <<listener, nobtain, instance, lerr>>
idVars == <<SESSION_ID, idlog, hid>>
streamVars == <<rorig, rwire, rbuf, rend, rread, held, rsent, rout, rfail, rdrop>>
relayVars == <<loopVars, startVars, idVars, uplog, hst, streamVars>>
vars == <<headerVars, codecVars, sessionVars, pathVars, responseVars, obtainVars, relayVars>>

\* what an action of one part leaves alone
notHeader == <<codecVars, sessionVars, pathVars, responseVars, obtainVars, relayVars>>
notCodec == <<headerVars, sessionVars, pathVars, responseVars, obtainVars, relayVars>>
notSession == <<headerVars, codecVars, pathVars, responseVars, obtainVars, relayVars>>
notPath == <<headerVars, codecVars, sessionVars, responseVars, obtainVars, relayVars>>
notResponse == <<headerVars, codecVars, sessionVars, pathVars, obtainVars, relayVars>>
notObtain == <<headerVars, codecVars, sessionVars, pathVars, responseVars, relayVars>>
notRelay == <<headerVars, codecVars, sessionVars, pathVars, responseVars>>

(***************************************************************************)
(* Integer widths                                                          *)
(***************************************************************************)
U8_MOD == 256
U16_MOD == 65536
U16_MAX == 65535

\* `x as u8`
AsU8(x) == x % U8_MOD

\* big-endian bytes of a u16 (BufMut::put_u16)
PutU16(x) == <<(x \div U8_MOD) % U8_MOD, x % U8_MOD>>

\* Buf::get_u16 on the two bytes b1, b2
GetU16(b1, b2) == b1 * U8_MOD + b2

(***************************************************************************)
(* PacketType and PacketOptions                                            *)
(***************************************************************************)
PacketType == {"Request", "Response", "Notify", "Error"}

\* `self.ty as u8`: the #[repr(u8)] discriminant
TypeOrdinal(ty) ==
    CASE ty = "Request" -> 0
      [] ty = "Response" -> 1
      [] ty = "Notify" -> 2
      [] ty = "Error" -> 3

\* From<u8> for PacketType with Error as the fallback
PacketTypeFrom_fallback_error(value) ==
    CASE value = 0 -> "Request"
      [] value = 1 -> "Response"
      [] value = 2 -> "Notify"
      [] value = 3 -> "Error"
      [] OTHER -> "Error"

\* impl From<u8> for PacketType
PacketTypeFrom(value) ==
    CASE value = 0 -> "Request"
      [] value = 1 -> "Response"
      [] value = 2 -> "Notify"
      [] value = 3 -> "Error"
      [] OTHER -> "Request"

\* PacketOptions is a u8 bit set; the four flags
NONE == 0
JUMBO_FRAME == 1
HAS_CONTXT == 2
IMMEDIATE == 4
JUMBO_CONTEXT == 8

\* PacketOptions::contains for a single-bit flag
Contains(options, flag) == (options \div flag) % 2 = 1

\* `options |= flag` for a single-bit flag
WithFlag(options, flag) == IF Contains(options, flag) THEN options ELSE options + flag

MIN_HEADER_SIZE == 12
JUMBO_SIZE == 2

(***************************************************************************)
(* PacketHeader                                                            *)
(***************************************************************************)
Header(component, command, error, ty, options, seq) ==
    [component |-> component, command |-> command, error |-> error,
     ty |-> ty, options |-> options, seq |-> seq]

\* PacketHeader::write with the type ordinal written without the shift
PacketHeader_write_type_unshifted(self, length) ==
    <<AsU8(length \div 256), AsU8(length)>>
    \o PutU16(self.component)
    \o PutU16(self.command)
    \o PutU16(self.error)
    \o <<AsU8(TypeOrdinal(self.ty))>>
    \o <<AsU8(self.options * 16)>>
    \o PutU16(self.seq)
    \o (IF Contains(self.options, JUMBO_FRAME)
        THEN <<AsU8(length \div 16777216), AsU8(length \div 65536)>>
        ELSE <<>>)

\* PacketHeader::write with the option flags written into the low nibble
PacketHeader_write_options_unshifted(self, length) ==
    <<AsU8(length \div 256), AsU8(length)>>
    \o PutU16(self.component)
    \o PutU16(self.command)
    \o PutU16(self.error)
    \o <<AsU8(TypeOrdinal(self.ty) * 16)>>
    \o <<AsU8(self.options)>>
    \o PutU16(self.seq)
    \o (IF Contains(self.options, JUMBO_FRAME)
        THEN <<AsU8(length \div 16777216), AsU8(length \div 65536)>>
        ELSE <<>>)

\* PacketHeader::write(&self, dst, length): the bytes appended to dst.
\* The local `options` gets JUMBO_FRAME or-ed in when length > 0xFFFF, and is
\* then never read: the options byte and the extension test use self.options.
PacketHeader_write(self, length) ==
    LET options == IF length > U16_MAX
                   THEN WithFlag(self.options, JUMBO_FRAME)
                   ELSE self.options
    IN  <<AsU8(length \div 256), AsU8(length)>>
        \o PutU16(self.component)
        \o PutU16(self.command)
        \o PutU16(self.error)
        \o <<AsU8(TypeOrdinal(self.ty) * 16)>>
        \o <<AsU8(self.options * 16)>>
        \o PutU16(self.seq)
        \o (IF Contains(self.options, JUMBO_FRAME)
            THEN <<AsU8(length \div 16777216), AsU8(length \div 65536)>>
            ELSE <<>>)

NoHeader == Header(0, 0, 0, "Request", NONE, 0)

\* PacketHeader::read(src): None, or Some((header, length)) with the bytes that
\* remain in src after the header was taken.  On None `rest` is not meaningful
\* to the caller (it is the state of the private copy).
PacketHeader_read(src) ==
    IF Len(src) < MIN_HEADER_SIZE
    THEN [some |-> FALSE, header |-> NoHeader, length |-> 0, rest |-> src]
    ELSE
        LET length == GetU16(src[1], src[2])
            component == GetU16(src[3], src[4])
            command == GetU16(src[5], src[6])
            error == GetU16(src[7], src[8])
            ty == src[9] \div 16
            options == src[10] \div 16
            seq == GetU16(src[11], src[12])
            after == SubSeq(src, MIN_HEADER_SIZE + 1, Len(src))
            header == Header(component, command, error, PacketTypeFrom(ty), options, seq)
        IN  IF Contains(options, JUMBO_FRAME)
            THEN IF Len(after) < JUMBO_SIZE
                 THEN [some |-> FALSE, header |-> NoHeader, length |-> 0, rest |-> after]
                 ELSE [some |-> TRUE, header |-> header,
                       length |-> length + after[1] * 16777216 + after[2] * 65536,
                       rest |-> SubSeq(after, JUMBO_SIZE + 1, Len(after))]
            ELSE [some |-> TRUE, header |-> header, length |-> length, rest |-> after]

(***************************************************************************)
(* Packet and PacketCodec                                                  *)
(***************************************************************************)
Packet(header, contents) == [header |-> header, contents |-> contents]

NoPacket == Packet(NoHeader, <<>>)

\* Packet::read with `src.len() <= length` for the content test
Packet_read_short(src) ==
    LET r == PacketHeader_read(src)
    IN  IF ~r.some
        THEN [some |-> FALSE, packet |-> NoPacket, rest |-> r.rest]
        ELSE IF Len(r.rest) <= r.length
             THEN [some |-> FALSE, packet |-> NoPacket, rest |-> r.rest]
             ELSE [some |-> TRUE,
                   packet |-> Packet(r.header, SubSeq(r.rest, 1, r.length)),
                   rest |-> SubSeq(r.rest, r.length + 1, Len(r.rest))]

\* Packet::read(src): None, or Some(packet) with src advanced past the packet
Packet_read(src) ==
    LET r == PacketHeader_read(src)
    IN  IF ~r.some
        THEN [some |-> FALSE, packet |-> NoPacket, rest |-> r.rest]
        ELSE IF Len(r.rest) < r.length
             THEN [some |-> FALSE, packet |-> NoPacket, rest |-> r.rest]
             ELSE [some |-> TRUE,
                   packet |-> Packet(r.header, SubSeq(r.rest, 1, r.length)),
                   rest |-> SubSeq(r.rest, r.length + 1, Len(r.rest))]

\* Packet::write(&self, dst): the bytes appended to dst
Packet_write(self) == PacketHeader_write(self.header, Len(self.contents)) \o self.contents

\* PacketCodec::decode reading from src itself instead of a clone
decode_in_place(src) ==
    LET read_src == Packet_read(src)
    IN  [ok |-> TRUE, some |-> read_src.some, packet |-> read_src.packet,
         src |-> read_src.rest]

\* PacketCodec::decode(src): the result and the new value of src.  The read
\* works on a clone; src is replaced by the clone only when a packet came out.
\* The result is always Ok(..), never Err.
decode(src) ==
    LET read_src == Packet_read(src)
    IN  [ok |-> TRUE, some |-> read_src.some, packet |-> read_src.packet,
         src |-> IF read_src.some THEN read_src.rest ELSE src]

\* PacketCodec::encode(item, dst): the new value of dst
encode(item, dst) == dst \o Packet_write(item)

\* PacketHeader::request(id, component, command)
PacketHeader_request(id, component, command) ==
    Header(component, command, 0, "Request", NONE, id)

\* PacketHeader::with_type(&self, ty): the fields are copied but for the type,
\* which is `ty`, and the options, which are PacketOptions::NONE
PacketHeader_with_type(self, ty) ==
    Header(self.component, self.command, self.error, ty, NONE, self.seq)

\* PacketHeader::response(&self)
PacketHeader_response(self) == PacketHeader_with_type(self, "Response")

\* Packet::new_response(packet, contents)
Packet_new_response(packet, contents) ==
    Packet(PacketHeader_response(packet.header), contents)

\* Packet::response_empty(packet)
Packet_response_empty(packet) == Packet(PacketHeader_response(packet.header), <<>>)

\* Packet::response(packet, contents), `contents` being the serialized value
Packet_response(packet, contents) == Packet_new_response(packet, contents)

\* path_matches that compares the sequence number too
path_matches_with_seq(self, other) ==
    self.component = other.component /\ self.command = other.command
    /\ self.seq = other.seq

\* PacketHeader::path_matches(&self, other)
path_matches(self, other) ==
    self.component = other.component /\ self.command = other.command

\* Packet::request(id, component, command, contents) / Packet::new_request
Packet_request(id, component, command, contents) ==
    Packet(PacketHeader_request(id, component, command), contents)

\* Packet::request_empty(id, component, command)
Packet_request_empty(id, component, command) ==
    Packet(PacketHeader_request(id, component, command), <<>>)

(***************************************************************************)
(* Bounded input sets                                                      *)
(***************************************************************************)
\* the longest sequence of well-formed packets put on the wire
MaxPackets == 2
\* the longest sequence of raw frames put on the wire
MaxRawFrames == 1

\* sequences over S of length 0..n
SeqsUpTo(S, n) == UNION {[1..k -> S] : k \in 0..n}

RECURSIVE Concat(_)
Concat(ss) == IF ss = <<>> THEN <<>> ELSE Head(ss) \o Concat(Tail(ss))

IsPrefix(s, t) == Len(s) <= Len(t) /\ s = SubSeq(t, 1, Len(s))

\* headers handed to PacketHeader::write
HeaderSet ==
    {Header(c, m, e, t, o, s) :
        c \in {1, 65535}, m \in {2, 258}, e \in {0, 16388},
        t \in PacketType, o \in 0..15, s \in {0, 5, 65535}}

\* content lengths handed to PacketHeader::write (0xFFFF, 0x10000, ... 0x7FFFFFFF)
LengthSet == {0, 1, 255, 256, 65535, 65536, 65537, 16777215, 16777216, 2147483647}

\* well-formed packets: content of at most 0xFFFF bytes, with or without JumboFrame
PacketSet ==
    {Packet(Header(1, 2, 0, "Request", NONE, 5), <<>>),
     Packet(Header(1, 2, 0, "Notify", NONE, 5), <<0, 255>>),
     Packet(Header(1, 2, 0, "Response", JUMBO_FRAME, 5), <<>>),
     Packet(Header(1, 2, 16388, "Error", JUMBO_FRAME + IMMEDIATE, 5), <<0, 255>>)}

\* a frame as a peer may put it on the wire: any type byte and options byte
RawFrame(tyByte, optByte, contents) ==
    <<0, Len(contents), 0, 1, 0, 2, 0, 0, tyByte, optByte, 0, 5>>
    \o (IF Contains(optByte \div 16, JUMBO_FRAME) THEN <<0, 0>> ELSE <<>>)
    \o contents

RawFrameSet ==
    {RawFrame(tb, ob, <<9>>) : tb \in {16, 19, 64, 240}, ob \in {0, 1, 16, 47}}

(***************************************************************************)
(* Header round trip: write a header, read it back                         *)
(***************************************************************************)
NoRead == [some |-> FALSE, header |-> NoHeader, length |-> 0, rest |-> <<>>]

HeaderIdle ==
    /\ hh = NoHeader /\ hlen = 0 /\ hwire = <<>> /\ hrd = NoRead /\ hpc = "off"

HeaderInit ==
    /\ hh \in HeaderSet
    /\ hlen \in LengthSet
    /\ hwire = <<>>
    /\ hrd = NoRead
    /\ hpc = "new"

HeaderWrite ==
    /\ hpc = "new"
    /\ hwire' = PacketHeader_write(hh, hlen)
    /\ hpc' = "written"
    /\ UNCHANGED <<hh, hlen, hrd, notHeader>>

HeaderRead ==
    /\ hpc = "written"
    /\ hrd' = PacketHeader_read(hwire)
    /\ hpc' = "read"
    /\ UNCHANGED <<hh, hlen, hwire, notHeader>>

\* header bytes as a peer may send them: every type byte, with options bytes
\* that have and have not the JumboFrame bit and the low nibble set
RawHeaderSet == {RawFrame(tb, ob, <<>>) : tb \in 0..255, ob \in {0, 16, 255}}

\* a header that arrived from a peer, about to be read
RawHeaderInit ==
    /\ hh = NoHeader
    /\ hlen = 0
    /\ hwire \in RawHeaderSet
    /\ hrd = NoRead
    /\ hpc = "written"

(***************************************************************************)
(* Path matching: two headers are compared                                 *)
(***************************************************************************)
\* headers path_matches is called with
PathHeaderSet ==
    {Header(c, m, e, t, o, s) :
        c \in {1, 2}, m \in {1, 2}, e \in {0, 16388},
        t \in PacketType, o \in {NONE, JUMBO_FRAME}, s \in {0, 7}}

NoMatch == [done |-> FALSE, ab |-> FALSE, ba |-> FALSE, aa |-> FALSE]

PathIdle == pa = NoHeader /\ pb = NoHeader /\ pres = NoMatch

PathInit == pa \in PathHeaderSet /\ pb \in PathHeaderSet /\ pres = NoMatch

\* a.path_matches(b), b.path_matches(a) and a.path_matches(a)
PathMatch ==
    /\ ~pres.done
    /\ pres' = [done |-> TRUE, ab |-> path_matches(pa, pb),
                ba |-> path_matches(pb, pa), aa |-> path_matches(pa, pa)]
    /\ UNCHANGED <<pa, pb, notPath>>

(***************************************************************************)
(* Response construction: a response is built for a packet                 *)
(***************************************************************************)
\* packets responses are built for: every type and every set of options
ResponsePacketSet ==
    {Packet(Header(1, 2, e, t, o, q), c) :
        e \in {0, 16388}, t \in PacketType, o \in 0..15, q \in {0, 65535},
        c \in {<<>>, <<7>>}}

NoResponses ==
    [done |-> FALSE, new_response |-> NoPacket, response_empty |-> NoPacket,
     response |-> NoPacket, contents |-> <<>>]

ResponseIdle == qp = NoPacket /\ qres = NoResponses

ResponseInit == qp \in ResponsePacketSet /\ qres = NoResponses

\* the three response constructors called on qp
ResponseBuild ==
    /\ ~qres.done
    /\ \E c \in {<<>>, <<9>>} :
        qres' = [done |-> TRUE,
                 new_response |-> Packet_new_response(qp, c),
                 response_empty |-> Packet_response_empty(qp),
                 response |-> Packet_response(qp, c),
                 contents |-> c]
    /\ UNCHANGED <<qp, notResponse>>

(***************************************************************************)
(* Streaming codec: bytes arrive, decode is called, packets are re-encoded *)
(***************************************************************************)
NoDecode == [called |-> FALSE, before |-> <<>>, ok |-> TRUE, some |-> FALSE,
             packet |-> NoPacket, after |-> <<>>]

CodecIdle ==
    /\ corig = <<>> /\ cwf = FALSE /\ cwire = <<>> /\ cbuf = <<>> /\ cdec = <<>>
    /\ cout = <<>> /\ clast = NoDecode /\ cframesIn = <<>> /\ cframesOut = <<>>

CodecInit ==
    /\ \/ /\ corig \in SeqsUpTo(PacketSet, MaxPackets)
          /\ cwf = TRUE
          /\ cwire = Concat([i \in 1..Len(corig) |-> encode(corig[i], <<>>)])
       \/ /\ corig = <<>>
          /\ cwf = FALSE
          /\ \E fs \in SeqsUpTo(RawFrameSet, MaxRawFrames) :
                /\ fs # <<>>
                /\ cwire = Concat(fs)
    /\ cbuf = <<>> /\ cdec = <<>> /\ cout = <<>> /\ clast = NoDecode
    /\ cframesIn = <<>> /\ cframesOut = <<>>

\* one more byte of the stream is read into the pending buffer
CodecAppend ==
    /\ cwire # <<>>
    /\ cbuf' = Append(cbuf, Head(cwire))
    /\ cwire' = Tail(cwire)
    /\ UNCHANGED <<corig, cwf, cdec, cout, clast, cframesIn, cframesOut, notCodec>>

\* PacketCodec::decode on the pending buffer
CodecDecode ==
    LET d == decode(cbuf)
    IN  /\ clast' = [called |-> TRUE, before |-> cbuf, ok |-> d.ok, some |-> d.some,
                     packet |-> d.packet, after |-> d.src]
        /\ cbuf' = d.src
        /\ IF d.some
           THEN /\ cdec' = Append(cdec, d.packet)
                /\ cout' = Append(cout, d.packet)
                /\ cframesIn' = Append(cframesIn, SubSeq(cbuf, 1, Len(cbuf) - Len(d.src)))
           ELSE UNCHANGED <<cdec, cout, cframesIn>>
        /\ UNCHANGED <<corig, cwf, cwire, cframesOut, notCodec>>

\* PacketCodec::encode of the oldest decoded packet into an empty dst
CodecEncode ==
    /\ cdec # <<>>
    /\ cframesOut' = Append(cframesOut, encode(Head(cdec), <<>>))
    /\ cdec' = Tail(cdec)
    /\ UNCHANGED <<corig, cwf, cwire, cbuf, cout, clast, cframesIn, notCodec>>

(***************************************************************************)
(* OfficialSession: request calls and expect_response                      *)
(***************************************************************************)
\* requests of one session whose send succeeds, in the runs that look at responses
MaxRequests == 2
\* requests of one session whose send succeeds, in the runs that count ids
MaxIdRequests == 65538
\* packets the peer sends on the session's stream
MaxStream == 2

Calls == {"request", "request_raw", "request_empty", "request_empty_raw"}

\* the (component, command) pairs requests are made on and packets arrive on:
\* one component, two commands of it
SessComponents == {5}
SessCommands == {1, 2}

\* packets the peer may send: every type, on the request's path or off it
SessPacketSet ==
    {Packet(Header(k, m, IF t = "Error" THEN 16388 ELSE 0, t, NONE, 0), <<>>) :
        k \in SessComponents, t \in PacketType, m \in SessCommands}
    \cup {Packet(Header(k, m, 0, "Response", NONE, 7), <<3>>) :
            k \in SessComponents, m \in SessCommands}

Result(kind, packet, deser) == [kind |-> kind, packet |-> packet, deser |-> deser]
NoResult == Result("none", NoPacket, "none")

\* `self.id += 1` on a u16: the outcomes of the two build modes when the sum
\* does not fit (overflow checks on: panic; off: wrap)
AddOneU16(id) ==
    IF id + 1 < U16_MOD
    THEN {[panic |-> FALSE, value |-> id + 1]}
    ELSE {[panic |-> TRUE, value |-> id], [panic |-> FALSE, value |-> (id + 1) % U16_MOD]}

\* request_raw with the increment placed before the send
request_raw_increment_first(id, component, command, contents, sendOk) ==
    LET request == Packet_request(id, component, command, contents)
    IN  [request |-> request, next |-> AddOneU16(id)]

\* OfficialSession::request_raw up to the call of expect_response: the request
\* packet, and the ids self.id may hold afterwards.  A failed send returns
\* through `?` before the increment.
request_raw(id, component, command, contents, sendOk) ==
    LET request == Packet_request(id, component, command, contents)
    IN  [request |-> request,
         next |-> IF sendOk THEN AddOneU16(id) ELSE {[panic |-> FALSE, value |-> id]}]

\* request_empty_raw with the increment placed before the send
request_empty_raw_increment_first(id, component, command, sendOk) ==
    LET request == Packet_request_empty(id, component, command)
    IN  [request |-> request, next |-> AddOneU16(id)]

\* OfficialSession::request_empty_raw up to the call of expect_response
request_empty_raw(id, component, command, sendOk) ==
    LET request == Packet_request_empty(id, component, command)
    IN  [request |-> request,
         next |-> IF sendOk THEN AddOneU16(id) ELSE {[panic |-> FALSE, value |-> id]}]

\* what self.stream.next() yields: Some(Ok(packet)), Some(Err(io)) or None
StreamNext(stream, atEnd) ==
    IF stream # <<>> THEN [kind |-> "packet", packet |-> Head(stream)]
    ELSE IF atEnd = "eof" THEN [kind |-> "none", packet |-> NoPacket]
    ELSE [kind |-> "err", packet |-> NoPacket]

\* expect_response with the path test applied to Error packets too
expect_response_error_on_path(next, request) ==
    IF next.kind = "none" THEN [done |-> TRUE, kind |-> "EarlyEof", packet |-> NoPacket]
    ELSE IF next.kind = "err" THEN [done |-> TRUE, kind |-> "IO", packet |-> NoPacket]
    ELSE LET header == next.packet.header
         IN  IF path_matches(header, request) /\ header.ty = "Response"
             THEN [done |-> TRUE, kind |-> "Ok", packet |-> next.packet]
             ELSE IF path_matches(header, request) /\ header.ty = "Error"
                  THEN [done |-> TRUE, kind |-> "Packet", packet |-> next.packet]
                  ELSE [done |-> FALSE, kind |-> "none", packet |-> NoPacket]

\* expect_response with the end of the stream reported as an I/O error
expect_response_eof_as_io(next, request) ==
    IF next.kind \in {"none", "err"} THEN [done |-> TRUE, kind |-> "IO", packet |-> NoPacket]
    ELSE LET header == next.packet.header
         IN  IF header.ty = "Response"
             THEN IF path_matches(header, request)
                  THEN [done |-> TRUE, kind |-> "Ok", packet |-> next.packet]
                  ELSE [done |-> FALSE, kind |-> "none", packet |-> NoPacket]
             ELSE IF header.ty = "Error"
                  THEN [done |-> TRUE, kind |-> "Packet", packet |-> next.packet]
                  ELSE [done |-> FALSE, kind |-> "none", packet |-> NoPacket]

\* expect_response accepting a Response only when its sequence number is the
\* request's
expect_response_match_seq(next, request) ==
    IF next.kind = "none" THEN [done |-> TRUE, kind |-> "EarlyEof", packet |-> NoPacket]
    ELSE IF next.kind = "err" THEN [done |-> TRUE, kind |-> "IO", packet |-> NoPacket]
    ELSE LET header == next.packet.header
         IN  IF header.ty = "Response"
             THEN IF path_matches(header, request) /\ header.seq = request.seq
                  THEN [done |-> TRUE, kind |-> "Ok", packet |-> next.packet]
                  ELSE [done |-> FALSE, kind |-> "none", packet |-> NoPacket]
             ELSE IF header.ty = "Error"
                  THEN [done |-> TRUE, kind |-> "Packet", packet |-> next.packet]
                  ELSE [done |-> FALSE, kind |-> "none", packet |-> NoPacket]

\* one iteration of the loop of OfficialSession::expect_response on what
\* stream.next() yielded: done with a result, or go round again
expect_response(next, request) ==
    IF next.kind = "none" THEN [done |-> TRUE, kind |-> "EarlyEof", packet |-> NoPacket]
    ELSE IF next.kind = "err" THEN [done |-> TRUE, kind |-> "IO", packet |-> NoPacket]
    ELSE LET header == next.packet.header
         IN  IF header.ty = "Response"
             THEN IF path_matches(header, request)
                  THEN [done |-> TRUE, kind |-> "Ok", packet |-> next.packet]
                  ELSE [done |-> FALSE, kind |-> "none", packet |-> NoPacket]
             ELSE IF header.ty = "Error"
                  THEN [done |-> TRUE, kind |-> "Packet", packet |-> next.packet]
                  ELSE [done |-> FALSE, kind |-> "none", packet |-> NoPacket]

SessionIdle ==
    /\ sid = 0 /\ spc = "off" /\ scall = "none" /\ sreq = NoHeader /\ sstream = <<>>
    /\ send = "eof" /\ sstart = <<>> /\ sres = NoResult /\ scur = -1
    /\ slastOk = FALSE /\ nOk = 0 /\ nret = 0

\* OfficialSession::connect: id 0 on a fresh stream; the peer's packets are
\* drawn from `streams`, the end of the stream from `ends`
SessionConnect(streams, ends) ==
    /\ sid = 0 /\ spc = "idle" /\ scall = "none" /\ sreq = NoHeader
    /\ sstream \in streams
    /\ send \in ends
    /\ sstart = <<>> /\ sres = NoResult /\ scur = -1
    /\ slastOk = FALSE /\ nOk = 0 /\ nret = 0

\* a request call that may start while an earlier call is still waiting
SessionRequest_pipelined(limit, commands) ==
    /\ spc \in {"idle", "wait"}
    /\ nOk < limit
    /\ \E call \in Calls, component \in SessComponents, command \in commands,
          sendOk \in BOOLEAN :
        LET r == IF call \in {"request", "request_raw"}
                 THEN request_raw(sid, component, command, <<1>>, sendOk)
                 ELSE request_empty_raw(sid, component, command, sendOk)
        IN  /\ sreq' = r.request.header
            /\ scur' = r.request.header.seq
            /\ slastOk' = sendOk
            /\ \E o \in r.next :
                /\ sid' = o.value
                /\ IF ~sendOk
                   THEN /\ spc' = "idle"
                        /\ scall' = "none"
                        /\ sres' = Result("IO", NoPacket, "none")
                        /\ UNCHANGED <<nOk, sstart>>
                   ELSE /\ spc' = IF o.panic THEN "dead" ELSE "wait"
                        /\ scall' = IF o.panic THEN "none" ELSE call
                        /\ sres' = NoResult
                        /\ nOk' = nOk + 1
                        /\ sstart' = sstream
    /\ UNCHANGED <<sstream, send, nret, notSession>>

\* a request call up to its first wait: build the packet with self.id, send it,
\* on a failed send return the I/O error, else increment self.id and enter
\* expect_response
SessionRequest(limit, commands) ==
    /\ spc = "idle"
    /\ nOk < limit
    /\ \E call \in Calls, component \in SessComponents, command \in commands,
          sendOk \in BOOLEAN :
        LET r == IF call \in {"request", "request_raw"}
                 THEN request_raw(sid, component, command, <<1>>, sendOk)
                 ELSE request_empty_raw(sid, component, command, sendOk)
        IN  /\ sreq' = r.request.header
            /\ scur' = r.request.header.seq
            /\ slastOk' = sendOk
            /\ \E o \in r.next :
                /\ sid' = o.value
                /\ IF ~sendOk
                   THEN /\ spc' = "idle"
                        /\ scall' = "none"
                        /\ sres' = Result("IO", NoPacket, "none")
                        /\ UNCHANGED <<nOk, sstart>>
                   ELSE /\ spc' = IF o.panic THEN "dead" ELSE "wait"
                        /\ scall' = IF o.panic THEN "none" ELSE call
                        /\ sres' = NoResult
                        /\ nOk' = nOk + 1
                        /\ sstart' = sstream
    /\ UNCHANGED <<sstream, send, nret, notSession>>

\* one iteration of expect_response; when it returns a packet to request or
\* request_empty, the content is deserialized, which may fail
SessionExpect ==
    /\ spc = "wait"
    /\ sstream # <<>> \/ send # "open"
    /\ LET e == expect_response(StreamNext(sstream, send), sreq)
       IN  /\ sstream' = IF sstream # <<>> THEN Tail(sstream) ELSE sstream
           /\ IF e.done
              THEN /\ spc' = "idle"
                   /\ scall' = "none"
                   /\ nret' = nret + 1
                   /\ \E d \in IF e.kind = "Ok" /\ scall \in {"request", "request_empty"}
                               THEN {"ok", "err"} ELSE {"none"} :
                        sres' = Result(e.kind, e.packet, d)
              ELSE UNCHANGED <<spc, scall, sres, nret>>
    /\ UNCHANGED <<sid, sreq, send, sstart, scur, slastOk, nOk, notSession>>

(***************************************************************************)
(* Instance discovery: OfficialInstance::obtain and lookup_host            *)
(***************************************************************************)
\* addresses the system DNS lookup returns, at most
MaxSysAddrs == 2
\* entries of the Answer list of the DNS-over-HTTPS response, at most
MaxAnswers == 2

REDIRECT_PORT == 42127

\* IpAddr values: V4 with four octets, V6 with eight segments
V4(a, b, c, d) == [v |-> 4, parts |-> <<a, b, c, d>>]
V6(segments) == [v |-> 6, parts |-> segments]

\* ip.is_loopback(): 127.0.0.0/8, or ::1
is_loopback(ip) ==
    IF ip.v = 4 THEN ip.parts[1] = 127 ELSE ip.parts = <<0, 0, 0, 0, 0, 0, 0, 1>>

\* Ipv4Addr::to_string / format!("{}", ip): the dotted form.  The one V6
\* address drawn below is ::1.
IpToString(ip) ==
    IF ip.v = 4
    THEN ToString(ip.parts[1]) \o "." \o ToString(ip.parts[2]) \o "."
         \o ToString(ip.parts[3]) \o "." \o ToString(ip.parts[4])
    ELSE "::1"

\* what tokio::net::lookup_host yields: an error, or the addresses in order
SysAddrSet ==
    {V4(127, 0, 0, 1), V4(127, 8, 9, 1), V4(159, 153, 64, 175), V4(10, 0, 0, 7),
     V6(<<0, 0, 0, 0, 0, 0, 0, 1>>)}

SysResults ==
    {[ok |-> FALSE, addrs |-> <<>>]}
    \cup {[ok |-> TRUE, addrs |-> a] : a \in SeqsUpTo(SysAddrSet, MaxSysAddrs)}

\* what the DNS-over-HTTPS request yields: a failure of the request or of the
\* JSON decoding, or the Answer list.  The data values are those of the
\* records a public resolver serves for the redirector host.
AnswerSet == {"gosredirector.ea.com.", "159.153.64.175", "159.153.64.176"}

DohResults ==
    {[ok |-> FALSE, answer |-> <<>>]}
    \cup {[ok |-> TRUE, answer |-> a] : a \in SeqsUpTo(AnswerSet, MaxAnswers)}

NoDoh == [ok |-> FALSE, answer |-> <<>>]
NoSys == [ok |-> FALSE, addrs |-> <<>>]

Lookup(via, kind, host) == [via |-> via, kind |-> kind, host |-> host]
NoLookup == Lookup("none", "none", "")

\* lookup_host taking the first entry of the Answer list
lookup_host_first_answer(sys, doh) ==
    IF sys.ok /\ sys.addrs # <<>> /\ ~is_loopback(Head(sys.addrs))
    THEN Lookup("system", "Ok", IpToString(Head(sys.addrs)))
    ELSE IF ~doh.ok THEN Lookup("doh", "LookupRequest", "")
    ELSE IF doh.answer # <<>>
         THEN Lookup("doh", "Ok", Head(doh.answer))
         ELSE Lookup("doh", "MissingValue", "")

\* lookup_host that takes whatever address the system DNS returned first
lookup_host_accept_loopback(sys, doh) ==
    IF sys.ok /\ sys.addrs # <<>>
    THEN Lookup("system", "Ok", IpToString(Head(sys.addrs)))
    ELSE IF ~doh.ok THEN Lookup("doh", "LookupRequest", "")
    ELSE IF doh.answer # <<>>
         THEN Lookup("doh", "Ok", doh.answer[Len(doh.answer)])
         ELSE Lookup("doh", "MissingValue", "")

\* OfficialInstance::lookup_host: the first address of the system DNS unless
\* the lookup failed, gave nothing or gave a loopback address; else the
\* DNS-over-HTTPS request, whose failure goes out through `?`, and the data of
\* the entry `pop` takes off the end of the Answer list
lookup_host(sys, doh) ==
    IF sys.ok /\ sys.addrs # <<>> /\ ~is_loopback(Head(sys.addrs))
    THEN Lookup("system", "Ok", IpToString(Head(sys.addrs)))
    ELSE IF ~doh.ok THEN Lookup("doh", "LookupRequest", "")
    ELSE IF doh.answer # <<>>
         THEN Lookup("doh", "Ok", doh.answer[Len(doh.answer)])
         ELSE Lookup("doh", "MissingValue", "")

\* InstanceHost and InstanceNet values
HostName(value) == [variant |-> "Host", name |-> value, ip |-> V4(0, 0, 0, 0)]
HostAddress(value) == [variant |-> "Address", name |-> "", ip |-> value]
InstanceAddress(host, port) == [variant |-> "InstanceAddress", host |-> host, port |-> port]
NetUnset == [variant |-> "Unset", host |-> HostName(""), port |-> 0]
NetDefault == [variant |-> "Default", host |-> HostName(""), port |-> 0]

\* the `net` of the InstanceDetails a redirector may answer with
NetSet ==
    {InstanceAddress(HostName("me3.gos.ea.com"), 14219),
     InstanceAddress(HostAddress(V4(159, 153, 64, 175)), 65535),
     NetUnset, NetDefault}

\* From<InstanceHost> for String that drops a numeric host
InstanceHostToString_name_only(value) == value.name

\* impl From<InstanceHost> for String
InstanceHostToString(value) ==
    IF value.variant = "Address" THEN IpToString(value.ip) ELSE value.name

\* what session.request::<InstanceDetails> yields: a RetrieverError, or the
\* details, of which obtain reads `net`
RequestResult(kind, net) == [kind |-> kind, net |-> net]
NoRequest == RequestResult("none", NetDefault)

RequestResults ==
    {RequestResult(k, NetDefault) : k \in {"Decode", "IO", "Packet", "EarlyEof"}}
    \cup {RequestResult("Ok", n) : n \in NetSet}

\* Result<OfficialInstance, InstanceError>
ObtainResult(kind, host, port) == [kind |-> kind, host |-> host, port |-> port]
NoObtain == ObtainResult("none", "", 0)

\* OfficialInstance::obtain after the request: the match on instance.net
obtain_match(r) ==
    IF r.kind # "Ok" THEN ObtainResult("InstanceRequest", "", 0)
    ELSE IF r.net.variant = "InstanceAddress"
         THEN ObtainResult("Ok", InstanceHostToString(r.net.host), r.net.port)
         ELSE ObtainResult("MissingAddress", "", 0)

ObtainIdle ==
    /\ opc = "off" /\ osys = NoSys /\ odoh = NoDoh /\ olook = NoLookup
    /\ oconns = <<>> /\ oreq = NoRequest /\ ores = NoObtain

\* obtain: `Self::lookup_host().await?`
ObtainLookup ==
    /\ opc = "lookup"
    /\ \E sys \in SysResults, doh \in DohResults :
        LET l == lookup_host(sys, doh)
        IN  /\ osys' = sys
            /\ odoh' = IF l.via = "doh" THEN doh ELSE NoDoh
            /\ olook' = l
            /\ IF l.kind = "Ok"
               THEN opc' = "connect" /\ UNCHANGED ores
               ELSE opc' = "done" /\ ores' = ObtainResult(l.kind, "", 0)
    /\ UNCHANGED <<oconns, oreq, notObtain>>

\* obtain: `OfficialSession::connect(&host, Self::REDIRECT_PORT).await?`
ObtainConnect(ok) ==
    /\ opc = "connect"
    /\ oconns' = Append(oconns, [host |-> olook.host, port |-> REDIRECT_PORT, ok |-> ok])
    /\ IF ok
       THEN opc' = "request" /\ UNCHANGED ores
       ELSE opc' = "done" /\ ores' = ObtainResult("Blaze", "", 0)
    /\ UNCHANGED <<osys, odoh, olook, oreq, notObtain>>

\* obtain: the request for the server instance and the match on its `net`
ObtainRequest ==
    /\ opc = "request"
    /\ \E r \in RequestResults :
        /\ oreq' = r
        /\ ores' = obtain_match(r)
    /\ opc' = "done"
    /\ UNCHANGED <<osys, odoh, olook, oconns, notObtain>>

(***************************************************************************)
(* Relay: start_server and handle_blaze                                    *)
(***************************************************************************)
\* client connections that reach the listener
MaxClients == 2
\* packets the two peers of one session send, both sides together
MaxRelayPackets == 2
\* bytes one read moves from the socket into a read buffer
RelayChunk == 8

Clients == 1..MaxClients
Sides == {"client", "server"}
Other(side) == IF side = "client" THEN "server" ELSE "client"

\* packets the peers of a relay session send
RelayPacketSet ==
    {Packet(Header(1, 2, 0, "Request", NONE, 5), <<>>),
     Packet(Header(1, 2, 0, "Response", JUMBO_FRAME, 5), <<7>>)}

Encoded(ps) == Concat([i \in 1..Len(ps) |-> encode(ps[i], <<>>)])

\* SESSION_ID.fetch_add(1, AcqRel) returning the old value: the value taken
\* and the counter afterwards (the counter wraps at 2^32, which no run of
\* this model comes near)
fetch_add_returns_new(counter) == [ret |-> counter + 1, new |-> counter + 1]

fetch_add(counter) == [ret |-> counter, new |-> counter + 1]

\* the side a packet read from `side` is sent to: the client branch of the
\* select sends on server_framed, the server branch on client_framed
forward_same_side(side) == side

forward_target(side) == Other(side)

EachSide(v) == [s \in Sides |-> v]
NoHeld == [to |-> "none", packet |-> NoPacket]
NoInstance == [host |-> "", port |-> 0]

\* OfficialInstance::stream connecting to the redirector's port
OfficialInstance_stream_redirect_port(self) == [host |-> self.host, port |-> REDIRECT_PORT]

\* OfficialInstance::stream: the address BlazeStream::connect is called with
OfficialInstance_stream(self) == [host |-> self.host, port |-> self.port]

RelayIdle ==
    /\ lpc = "off" /\ naccepted = 0 /\ SESSION_ID = 1 /\ idlog = <<>>
    /\ listener = "none" /\ nobtain = 0 /\ instance = NoInstance /\ lerr = <<>>
    /\ uplog = <<>>
    /\ hst = [c \in Clients |-> "none"]
    /\ hid = [c \in Clients |-> 0]
    /\ rorig = [c \in Clients |-> EachSide(<<>>)]
    /\ rwire = [c \in Clients |-> EachSide(<<>>)]
    /\ rbuf = [c \in Clients |-> EachSide(<<>>)]
    /\ rend = [c \in Clients |-> EachSide("open")]
    /\ rread = [c \in Clients |-> EachSide(<<>>)]
    /\ held = [c \in Clients |-> NoHeld]
    /\ rsent = [c \in Clients |-> EachSide(<<>>)]
    /\ rout = [c \in Clients |-> EachSide(<<>>)]
    /\ rfail = [c \in Clients |-> EachSide(FALSE)]
    /\ rdrop = [c \in Clients |-> EachSide(<<>>)]

\* process start: SESSION_ID is 1, start_server is about to bind
RelayInit ==
    /\ lpc = "bind" /\ naccepted = 0 /\ SESSION_ID = 1 /\ idlog = <<>>
    /\ listener = "none" /\ nobtain = 0 /\ instance = NoInstance /\ lerr = <<>>
    /\ uplog = <<>>
    /\ hst = [c \in Clients |-> "none"]
    /\ hid = [c \in Clients |-> 0]
    /\ rorig = [c \in Clients |-> EachSide(<<>>)]
    /\ rwire = [c \in Clients |-> EachSide(<<>>)]
    /\ rbuf = [c \in Clients |-> EachSide(<<>>)]
    /\ rend = [c \in Clients |-> EachSide("open")]
    /\ rread = [c \in Clients |-> EachSide(<<>>)]
    /\ held = [c \in Clients |-> NoHeld]
    /\ rsent = [c \in Clients |-> EachSide(<<>>)]
    /\ rout = [c \in Clients |-> EachSide(<<>>)]
    /\ rfail = [c \in Clients |-> EachSide(FALSE)]
    /\ rdrop = [c \in Clients |-> EachSide(<<>>)]

\* start_server: TcpListener::bind on MAIN_PORT; on failure the error is
\* reported and start_server returns, else OfficialInstance::obtain is called
\* and runs up to its lookup
ServerBind(ok) ==
    /\ lpc = "bind"
    /\ IF ok
       THEN /\ listener' = "bound"
            /\ lpc' = "obtain"
            /\ nobtain' = nobtain + 1
            /\ opc' = "lookup"
            /\ UNCHANGED lerr
       ELSE /\ lerr' = Append(lerr, "Failed to start main")
            /\ lpc' = "exit"
            /\ UNCHANGED <<listener, nobtain, opc>>
    /\ UNCHANGED <<naccepted, instance, idVars, uplog, hst, streamVars, notRelay>>
    /\ UNCHANGED <<osys, odoh, olook, oconns, oreq, ores>>

\* start_server: the match on what obtain returned; on Err the error is
\* reported and start_server returns, which drops the listener; on Ok the
\* instance is kept in `ret`.  The session and the locals of obtain are gone.
ServerObtain ==
    /\ lpc = "obtain"
    /\ opc = "done"
    /\ IF ores.kind = "Ok"
       THEN /\ instance' = [host |-> ores.host, port |-> ores.port]
            /\ lpc' = "accept"
            /\ UNCHANGED <<listener, lerr>>
       ELSE /\ lerr' = Append(lerr, "Failed to create official instance")
            /\ listener' = "dropped"
            /\ lpc' = "exit"
            /\ UNCHANGED instance
    /\ opc' = "off" /\ osys' = NoSys /\ odoh' = NoDoh /\ olook' = NoLookup
    /\ oconns' = <<>> /\ oreq' = NoRequest /\ ores' = NoObtain
    /\ UNCHANGED <<naccepted, nobtain, idVars, uplog, hst, streamVars, notRelay>>

\* start_server: listener.accept, then spawn of handle_blaze and the await of
\* its JoinHandle; an accept error breaks the loop
ServerAccept(ok) ==
    /\ lpc = "accept"
    /\ IF ok
       THEN /\ naccepted < MaxClients
            /\ naccepted' = naccepted + 1
            /\ hst' = [hst EXCEPT ![naccepted + 1] = "connect"]
            /\ lpc' = "join"
            /\ UNCHANGED listener
       ELSE /\ lpc' = "exit"
            /\ listener' = "dropped"
            /\ UNCHANGED <<naccepted, hst>>
    /\ UNCHANGED <<nobtain, instance, lerr, idVars, uplog, streamVars, obtainVars, notRelay>>

\* start_server: the awaited JoinHandle resolves when the handler has returned
ServerJoin ==
    /\ lpc = "join"
    /\ hst[naccepted] = "returned"
    /\ lpc' = "accept"
    /\ UNCHANGED <<naccepted, startVars, idVars, uplog, hst, streamVars, obtainVars, notRelay>>

\* handle_blaze taking the session id before it connects upstream
HandlerConnect_id_first(c, ok) ==
    /\ hst[c] = "connect"
    /\ LET to == OfficialInstance_stream(instance)
       IN  uplog' = Append(uplog, [client |-> c, host |-> to.host, port |-> to.port, ok |-> ok])
    /\ LET id == fetch_add(SESSION_ID)
       IN  /\ SESSION_ID' = id.new
           /\ hid' = [hid EXCEPT ![c] = id.ret]
           /\ idlog' = Append(idlog, id.ret)
    /\ IF ~ok
       THEN /\ hst' = [hst EXCEPT ![c] = "returned"]
            /\ UNCHANGED streamVars
       ELSE /\ hst' = [hst EXCEPT ![c] = "select"]
            /\ \E pc \in SeqsUpTo(RelayPacketSet, MaxRelayPackets) :
               \E ps \in SeqsUpTo(RelayPacketSet, MaxRelayPackets - Len(pc)) :
                    /\ rorig' = [rorig EXCEPT ![c] = [client |-> pc, server |-> ps]]
                    /\ rwire' = [rwire EXCEPT
                                    ![c] = [client |-> Encoded(pc), server |-> Encoded(ps)]]
            /\ UNCHANGED <<rbuf, rend, rread, held, rsent, rout, rfail, rdrop>>
    /\ UNCHANGED <<loopVars, startVars, obtainVars, notRelay>>

\* handle_blaze up to the loop: ret.stream(), on failure return; else take the
\* session id and frame both streams.  The packets the two peers will send
\* are drawn here.
HandlerConnect(c, ok) ==
    /\ hst[c] = "connect"
    /\ LET to == OfficialInstance_stream(instance)
       IN  uplog' = Append(uplog, [client |-> c, host |-> to.host, port |-> to.port, ok |-> ok])
    /\ IF ~ok
       THEN /\ hst' = [hst EXCEPT ![c] = "returned"]
            /\ UNCHANGED <<idVars, streamVars>>
       ELSE LET id == fetch_add(SESSION_ID)
            IN  /\ SESSION_ID' = id.new
                /\ hid' = [hid EXCEPT ![c] = id.ret]
                /\ idlog' = Append(idlog, id.ret)
                /\ hst' = [hst EXCEPT ![c] = "select"]
                /\ \E pc \in SeqsUpTo(RelayPacketSet, MaxRelayPackets) :
                   \E ps \in SeqsUpTo(RelayPacketSet, MaxRelayPackets - Len(pc)) :
                        /\ rorig' = [rorig EXCEPT ![c] = [client |-> pc, server |-> ps]]
                        /\ rwire' = [rwire EXCEPT
                                        ![c] = [client |-> Encoded(pc), server |-> Encoded(ps)]]
                /\ UNCHANGED <<rbuf, rend, rread, held, rsent, rout, rfail, rdrop>>
    /\ UNCHANGED <<loopVars, startVars, obtainVars, notRelay>>

Relaying(c) == hst[c] \in {"select", "send"}

Min2(a, b) == IF a <= b THEN a ELSE b

\* next() of the framed stream of `side`, polled by the select!, reads the
\* next bytes of the socket into its buffer
RelayArrive(c, side) ==
    /\ hst[c] = "select"
    /\ rwire[c][side] # <<>>
    /\ LET n == Min2(RelayChunk, Len(rwire[c][side]))
       IN  /\ rbuf' = [rbuf EXCEPT ![c][side] = @ \o SubSeq(rwire[c][side], 1, n)]
           /\ rwire' = [rwire EXCEPT ![c][side] = SubSeq(@, n + 1, Len(@))]
    /\ UNCHANGED <<loopVars, idVars, hst, rorig, rend, rread, held, rsent, rout, rfail, rdrop>>
    /\ UNCHANGED <<startVars, uplog, obtainVars, notRelay>>

\* the peer of `side` closes its stream, or the stream fails
RelayClose(c, side, how) ==
    /\ Relaying(c)
    /\ rend[c][side] = "open"
    /\ rend' = [rend EXCEPT ![c][side] = how]
    /\ UNCHANGED <<loopVars, idVars, hst, rorig, rwire, rbuf, rread, held, rsent, rout, rfail, rdrop>>
    /\ UNCHANGED <<startVars, uplog, obtainVars, notRelay>>

\* next() of the framed stream of `side` can resolve: a whole packet is
\* buffered, or all bytes were taken and the stream has ended or failed
Resolves(c, side) ==
    \/ decode(rbuf[c][side]).some
    \/ rwire[c][side] = <<>> /\ rend[c][side] # "open"

\* handle_blaze taking the next packet while a send is still under way
RelayRead_during_send(c, side) ==
    /\ Relaying(c)
    /\ Resolves(c, side)
    /\ LET d == decode(rbuf[c][side])
       IN  IF d.some
           THEN /\ rbuf' = [rbuf EXCEPT ![c][side] = d.src]
                /\ rread' = [rread EXCEPT ![c][side] = Append(@, d.packet)]
                /\ held' = [held EXCEPT ![c] = [to |-> forward_target(side), packet |-> d.packet]]
                /\ hst' = [hst EXCEPT ![c] = "send"]
           ELSE UNCHANGED <<rbuf, rread, held, hst>>
    /\ UNCHANGED <<loopVars, idVars, rorig, rwire, rend, rsent, rout, rfail, rdrop>>
    /\ UNCHANGED <<startVars, uplog, obtainVars, notRelay>>

\* handle_blaze with a select! that polls the client branch first (`biased;`):
\* the server branch wins only when the client branch cannot resolve
RelayRead_biased(c, side) ==
    /\ hst[c] = "select"
    /\ Resolves(c, side)
    /\ side = "server" => ~Resolves(c, "client")
    /\ LET d == decode(rbuf[c][side])
       IN  IF d.some
           THEN /\ rbuf' = [rbuf EXCEPT ![c][side] = d.src]
                /\ rread' = [rread EXCEPT ![c][side] = Append(@, d.packet)]
                /\ held' = [held EXCEPT ![c] = [to |-> forward_target(side), packet |-> d.packet]]
                /\ hst' = [hst EXCEPT ![c] = "send"]
           ELSE UNCHANGED <<rbuf, rread, held, hst>>
    /\ UNCHANGED <<loopVars, idVars, rorig, rwire, rend, rsent, rout, rfail, rdrop>>
    /\ UNCHANGED <<startVars, uplog, obtainVars, notRelay>>

\* handle_blaze, one select!: the branch of `side` wins.  With Some(Ok(packet))
\* the packet goes to the send of the other side; with None or Some(Err) the
\* iteration ends with nothing done.  The read buffer of the side that lost
\* stays as it is.
RelayRead(c, side) ==
    /\ hst[c] = "select"
    /\ Resolves(c, side)
    /\ LET d == decode(rbuf[c][side])
       IN  IF d.some
           THEN /\ rbuf' = [rbuf EXCEPT ![c][side] = d.src]
                /\ rread' = [rread EXCEPT ![c][side] = Append(@, d.packet)]
                /\ held' = [held EXCEPT ![c] = [to |-> forward_target(side), packet |-> d.packet]]
                /\ hst' = [hst EXCEPT ![c] = "send"]
           ELSE UNCHANGED <<rbuf, rread, held, hst>>
    /\ UNCHANGED <<loopVars, idVars, rorig, rwire, rend, rsent, rout, rfail, rdrop>>
    /\ UNCHANGED <<startVars, uplog, obtainVars, notRelay>>

\* handle_blaze returning when a send fails
RelaySend_return_on_error(c, ok) ==
    /\ hst[c] = "send"
    /\ LET to == held[c].to
       IN  IF ok
           THEN /\ rsent' = [rsent EXCEPT ![c][to] = Append(@, held[c].packet)]
                /\ rout' = [rout EXCEPT ![c][to] = encode(held[c].packet, @)]
                /\ UNCHANGED <<rfail, rdrop>>
           ELSE /\ rfail' = [rfail EXCEPT ![c][to] = TRUE]
                /\ rdrop' = [rdrop EXCEPT ![c][to] = Append(@, held[c].packet)]
                /\ UNCHANGED <<rsent, rout>>
    /\ held' = [held EXCEPT ![c] = NoHeld]
    /\ hst' = [hst EXCEPT ![c] = IF ok THEN "select" ELSE "returned"]
    /\ UNCHANGED <<loopVars, idVars, rorig, rwire, rbuf, rend, rread>>
    /\ UNCHANGED <<startVars, uplog, obtainVars, notRelay>>

\* handle_blaze: the awaited send of the held packet completes; its result is
\* dropped (`_ =`) and the loop goes round
RelaySend(c, ok) ==
    /\ hst[c] = "send"
    /\ LET to == held[c].to
       IN  IF ok
           THEN /\ rsent' = [rsent EXCEPT ![c][to] = Append(@, held[c].packet)]
                /\ rout' = [rout EXCEPT ![c][to] = encode(held[c].packet, @)]
                /\ UNCHANGED <<rfail, rdrop>>
           ELSE /\ rfail' = [rfail EXCEPT ![c][to] = TRUE]
                /\ rdrop' = [rdrop EXCEPT ![c][to] = Append(@, held[c].packet)]
                /\ UNCHANGED <<rsent, rout>>
    /\ held' = [held EXCEPT ![c] = NoHeld]
    /\ hst' = [hst EXCEPT ![c] = "select"]
    /\ UNCHANGED <<loopVars, idVars, rorig, rwire, rbuf, rend, rread>>
    /\ UNCHANGED <<startVars, uplog, obtainVars, notRelay>>

(***************************************************************************)
(* Specifications                                                          *)
(***************************************************************************)
HeaderNext == HeaderWrite \/ HeaderRead

InitHeader == HeaderInit /\ CodecIdle /\ SessionIdle /\ PathIdle /\ ResponseIdle /\ ObtainIdle /\ RelayIdle

SpecHeader == InitHeader /\ [][HeaderNext]_vars

CodecNext == CodecAppend \/ CodecDecode \/ CodecEncode

InitCodec == HeaderIdle /\ CodecInit /\ SessionIdle /\ PathIdle /\ ResponseIdle /\ ObtainIdle /\ RelayIdle

SpecCodec == InitCodec /\ [][CodecNext]_vars

SessionNext == SessionRequest(MaxRequests, SessCommands) \/ SessionExpect

InitSession ==
    /\ HeaderIdle /\ CodecIdle /\ PathIdle /\ ResponseIdle /\ ObtainIdle /\ RelayIdle
    /\ SessionConnect(SeqsUpTo(SessPacketSet, MaxStream), {"eof", "ioerr", "open"})

SpecSession == InitSession /\ [][SessionNext]_vars

SessionIdsNext == SessionRequest(MaxIdRequests, {1}) \/ SessionExpect

\* a session whose peer sends nothing and has closed: every wait ends at once
InitSessionIds ==
    /\ HeaderIdle /\ CodecIdle /\ PathIdle /\ ResponseIdle /\ ObtainIdle /\ RelayIdle
    /\ SessionConnect({<<>>}, {"eof"})

SpecSessionIds == InitSessionIds /\ [][SessionIdsNext]_vars

RawHeaderNext == HeaderRead

InitRawHeader == RawHeaderInit /\ CodecIdle /\ SessionIdle /\ PathIdle /\ ResponseIdle /\ ObtainIdle /\ RelayIdle

SpecRawHeader == InitRawHeader /\ [][RawHeaderNext]_vars

PathNext == PathMatch

InitPath == HeaderIdle /\ CodecIdle /\ SessionIdle /\ PathInit /\ ResponseIdle /\ ObtainIdle /\ RelayIdle

SpecPath == InitPath /\ [][PathNext]_vars

ResponseNext == ResponseBuild

InitResponse ==
    HeaderIdle /\ CodecIdle /\ SessionIdle /\ PathIdle /\ ResponseInit /\ ObtainIdle /\ RelayIdle

SpecResponse == InitResponse /\ [][ResponseNext]_vars

RelayNext ==
    \/ \E ok \in BOOLEAN : ServerBind(ok)
    \/ ObtainLookup
    \/ \E ok \in BOOLEAN : ObtainConnect(ok)
    \/ ObtainRequest
    \/ ServerObtain
    \/ \E ok \in BOOLEAN : ServerAccept(ok)
    \/ \E c \in Clients, ok \in BOOLEAN : HandlerConnect(c, ok)
    \/ ServerJoin
    \/ \E c \in Clients, side \in Sides : RelayArrive(c, side)
    \/ \E c \in Clients, side \in Sides, how \in {"eof", "err"} : RelayClose(c, side, how)
    \/ \E c \in Clients, side \in Sides : RelayRead(c, side)
    \/ \E c \in Clients, ok \in BOOLEAN : RelaySend(c, ok)

InitRelay == HeaderIdle /\ CodecIdle /\ SessionIdle /\ PathIdle /\ ResponseIdle /\ ObtainIdle /\ RelayInit

SpecRelay == InitRelay /\ [][RelayNext]_vars

\* start_server at its accept loop: the listener is bound and obtain has
\* returned the instance the redirector named
RelayAccepting ==
    /\ lpc = "accept" /\ naccepted = 0 /\ SESSION_ID = 1 /\ idlog = <<>>
    /\ listener = "bound" /\ nobtain = 1 /\ lerr = <<>>
    /\ instance = [host |-> "me3.gos.ea.com", port |-> 14219]
    /\ uplog = <<>>
    /\ hst = [c \in Clients |-> "none"]
    /\ hid = [c \in Clients |-> 0]
    /\ rorig = [c \in Clients |-> EachSide(<<>>)]
    /\ rwire = [c \in Clients |-> EachSide(<<>>)]
    /\ rbuf = [c \in Clients |-> EachSide(<<>>)]
    /\ rend = [c \in Clients |-> EachSide("open")]
    /\ rread = [c \in Clients |-> EachSide(<<>>)]
    /\ held = [c \in Clients |-> NoHeld]
    /\ rsent = [c \in Clients |-> EachSide(<<>>)]
    /\ rout = [c \in Clients |-> EachSide(<<>>)]
    /\ rfail = [c \in Clients |-> EachSide(FALSE)]
    /\ rdrop = [c \in Clients |-> EachSide(<<>>)]

\* the accept loop and the sessions when every accept and upstream connect
\* succeeds and every forward send completes
RelayLiveNext ==
    \/ ServerAccept(TRUE)
    \/ \E c \in Clients : HandlerConnect(c, TRUE)
    \/ \E c \in Clients, side \in Sides : RelayArrive(c, side)
    \/ \E c \in Clients, side \in Sides, how \in {"eof", "err"} : RelayClose(c, side, how)
    \/ \E c \in Clients, side \in Sides : RelayRead(c, side)
    \/ \E c \in Clients : RelaySend(c, TRUE)

\* the branch of `side` of the select! is polled: it reads its socket or
\* yields the packet it has buffered
RelayPoll(c, side) == RelayArrive(c, side) \/ RelayRead(c, side)

\* the one session a run of RelayLiveNext has: start_server awaits the handler
\* of the first client, which never returns once it has connected
LiveClient == 1

\* tokio's select! polls its branches in an order drawn at random on every
\* iteration, so a branch that can make progress in infinitely many
\* iterations is polled first in infinitely many of them; an awaited send
\* that can complete does
RelayFairness ==
    /\ WF_vars(RelaySend(LiveClient, TRUE))
    /\ \A side \in Sides : SF_vars(RelayPoll(LiveClient, side))

InitRelayLive ==
    HeaderIdle /\ CodecIdle /\ SessionIdle /\ PathIdle /\ ResponseIdle /\ ObtainIdle /\ RelayAccepting

SpecRelayLive == InitRelayLive /\ [][RelayLiveNext]_vars /\ RelayFairness

(***************************************************************************)
(* Properties of the packet framing                                        *)
(***************************************************************************)
\* h with the JumboFrame flag set whenever len > 0xFFFF
Forced(h, len) ==
    [h EXCEPT !.options = IF len > U16_MAX THEN WithFlag(@, JUMBO_FRAME) ELSE @]

\* C1: reading the bytes that write(h, len) produced returns (h', len), where
\* h' is h with JumboFrame set whenever len > 0xFFFF.
C1_HeaderRoundTrip ==
    hpc = "read" =>
        /\ hrd.some
        /\ hrd.header = Forced(hh, hlen)
        /\ hrd.length = hlen

\* C2: for a header without JumboFrame, write emits 12 bytes when
\* len <= 0xFFFF, and for len > 0xFFFF it emits 14 bytes, the last two holding
\* bits 24-31 and 16-23 of len, with the JumboFrame bit set in the options
\* nibble; and 0x10000 reads back as 0x10000.
C2_JumboForcing ==
    /\ (hpc \in {"written", "read"} /\ ~Contains(hh.options, JUMBO_FRAME)) =>
          IF hlen <= U16_MAX
          THEN Len(hwire) = 12
          ELSE /\ Len(hwire) = 14
               /\ hwire[13] = (hlen \div 16777216) % 256
               /\ hwire[14] = (hlen \div 65536) % 256
               /\ Contains(hwire[10] \div 16, JUMBO_FRAME)
    /\ (hpc = "read" /\ hlen = 65536) => (hrd.some /\ hrd.length = 65536)

\* the content length a buffer of at least a whole header declares
DeclaredLength(b) ==
    b[1] * 256 + b[2]
    + (IF Contains(b[10] \div 16, JUMBO_FRAME) THEN b[13] * 16777216 + b[14] * 65536 ELSE 0)

HeaderBytes(b) == IF Contains(b[10] \div 16, JUMBO_FRAME) THEN 14 ELSE 12

\* the buffer holds no whole packet: under 12 bytes, JumboFrame with under 14
\* bytes, or fewer content bytes than the declared length
Incomplete(b) ==
    \/ Len(b) < 12
    \/ Len(b) < HeaderBytes(b)
    \/ Len(b) - HeaderBytes(b) < DeclaredLength(b)

\* C3: decode never returns an error; when the buffer holds no whole packet
\* it returns no packet and leaves the buffer unchanged; otherwise it returns
\* a packet with the declared content and removes exactly the header bytes and
\* the content bytes from the front of the buffer.
C3_NonDestructiveDecode ==
    clast.called =>
        /\ clast.ok
        /\ IF Incomplete(clast.before)
           THEN ~clast.some /\ clast.after = clast.before
           ELSE LET b == clast.before
                    n == HeaderBytes(b) + DeclaredLength(b)
                IN  /\ clast.some
                    /\ clast.packet.contents = SubSeq(b, HeaderBytes(b) + 1, n)
                    /\ clast.after = SubSeq(b, n + 1, Len(b))

\* a decode found a JumboFrame header cut after 13 bytes
C3_Witness ==
    /\ clast.called /\ ~clast.some
    /\ Len(clast.before) = 13
    /\ Contains(clast.before[10] \div 16, JUMBO_FRAME)
    /\ cbuf = clast.before

\* C4: when the stream is the back-to-back encoding of well-formed packets,
\* the packets decode returns are, under every chunking, a prefix of the
\* encoded packets in order, and once the stream is all appended and decode
\* has no more to return they are all of them.
C4_StreamDemux ==
    cwf =>
        /\ IsPrefix(cout, corig)
        /\ (cwire = <<>> /\ ~decode(cbuf).some) => (cout = corig /\ cbuf = <<>>)

\* two different packets, one with JumboFrame, came out whole and in order
C4_Witness ==
    /\ cwf /\ Len(corig) = 2 /\ cout = corig /\ cwire = <<>>
    /\ \E i \in 1..2 : Contains(corig[i].header.options, JUMBO_FRAME)
    /\ corig[1] # corig[2]
    /\ clast.called /\ clast.some

\* the type byte and options byte a frame may carry for every bit of them to
\* survive the decoding: type 0x00, 0x10, 0x20 or 0x30, options low nibble 0
Canonical(frame) == frame[9] \in {0, 16, 32, 48} /\ frame[10] % 16 = 0

\* the frame with the bits that decoding drops cleared: the low nibbles of the
\* type and options bytes, and a type ordinal above 3
Normalised(frame) ==
    [frame EXCEPT ![9] = IF @ \div 16 <= 3 THEN (@ \div 16) * 16 ELSE 0,
                  ![10] = @ - (@ % 16)]

\* C10 as stated: the bytes encode writes for a decoded packet are the bytes
\* that decode consumed, whatever the type byte and options byte were.
C10_ByteIdentical ==
    \A i \in 1..Len(cframesOut) : cframesOut[i] = cframesIn[i]

\* C10 amended: the bytes encode writes are the consumed bytes with the low
\* nibbles of the type and options bytes cleared and a type ordinal above 3
\* replaced by 0; so they are identical for every frame whose type byte is
\* 0x00, 0x10, 0x20 or 0x30 and whose options byte has a zero low nibble.
C10_CanonicalByteIdentical ==
    \A i \in 1..Len(cframesOut) :
        /\ cframesOut[i] = Normalised(cframesIn[i])
        /\ Canonical(cframesIn[i]) => cframesOut[i] = cframesIn[i]

\* a 14-byte-header frame with one content byte went through unchanged
C10_Witness ==
    /\ ~cwf
    /\ \E i \in 1..Len(cframesOut) :
          /\ Canonical(cframesIn[i])
          /\ Len(cframesIn[i]) = 15
          /\ cframesOut[i] = cframesIn[i]

(***************************************************************************)
(* Properties of the discovery session                                     *)
(***************************************************************************)
\* a packet that ends the wait for `request`
Decisive(p, request) ==
    \/ p.header.ty = "Error"
    \/ /\ p.header.ty = "Response"
       /\ p.header.component = request.component
       /\ p.header.command = request.command

DecisiveAt(s, request) == {i \in 1..Len(s) : Decisive(s[i], request)}

Min(S) == CHOOSE x \in S : \A y \in S : x <= y

\* expect_response has returned (the send of the last request succeeded)
Returned == spc = "idle" /\ slastOk /\ sres.kind # "none"

C6_EarlyEof ==
    /\ (Returned /\ DecisiveAt(sstart, sreq) = {}) =>
          /\ sres.kind = IF send = "eof" THEN "EarlyEof" ELSE "IO"
          /\ sres.packet = NoPacket
          /\ sstream = <<>>
    /\ sres.kind = "EarlyEof" => (send = "eof" /\ DecisiveAt(sstart, sreq) = {})
    /\ sres.kind \in {"EarlyEof", "IO"} => sres.packet = NoPacket

\* EarlyEof after two packets were discarded
C6_Witness ==
    /\ Returned /\ sres.kind = "EarlyEof"
    /\ Len(sstart) = 2 /\ sstream = <<>>
    /\ sstart[1].header.ty = "Notify"
    /\ sstart[2].header.ty = "Response"

\* C7 as stated: the first request carries 0 and each later request carries
\* the sequence number of the request before it plus 1 (so no two are equal).
\* A step that leaves "idle" is a request call.
C7_IdsPlusOne ==
    [][spc = "idle" => scur' = IF scur = -1 THEN 0 ELSE scur + 1]_vars

\* C7 amended: every request carries the number of earlier requests of the
\* session whose send succeeded, modulo 2^16 (so the first carries 0, a request
\* after a successful send the previous number plus 1 modulo 2^16, a request
\* after a failed send the same number again); the sum that does not fit ends
\* the session by panic or wraps to 0.
C7_IdsCountSends ==
    /\ scur # -1 => scur = (nOk - (IF slastOk THEN 1 ELSE 0)) % U16_MOD
    /\ spc # "dead" => sid = nOk % U16_MOD
    /\ spc = "dead" => (nOk = U16_MOD /\ scur = U16_MAX)

\* the 65537th request whose send succeeded carries 0 again
C7_Witness ==
    /\ nOk = U16_MOD + 1 /\ slastOk /\ scur = 0 /\ spc = "wait"

HeldFor(c, side) == IF held[c].to = side THEN <<held[c].packet>> ELSE <<>>

\* C9: in a relay session, while no send to a side has failed, the packets
\* sent to that side are the packets read from the other side, in order and
\* unchanged, but for the one whose send is under way; the packets read from
\* a side are a prefix of what its peer sent, and the bytes of the others are
\* still in the read buffer or on the wire, whichever branch won the race.
C9_ForwardInOrder ==
    \A c \in Clients : \A side \in Sides :
        /\ ~rfail[c][Other(side)] =>
              /\ rsent[c][Other(side)] \o HeldFor(c, Other(side)) = rread[c][side]
              /\ IsPrefix(rsent[c][Other(side)], rorig[c][side])
        /\ IsPrefix(rread[c][side], rorig[c][side])
        /\ Encoded(rread[c][side]) \o rbuf[c][side] \o rwire[c][side]
              = Encoded(rorig[c][side])

\* the client branch won the race while a whole packet from upstream was
\* readable too: that packet is still in the read buffer during the send
C9_Witness ==
    \E c \in Clients :
        /\ hst[c] = "send" /\ held[c].to = "server"
        /\ decode(rbuf[c]["server"]).some
        /\ rread[c]["server"] = <<>>

(***************************************************************************)
(* Properties of the type fallback and of path matching                    *)
(***************************************************************************)
\* C13: PacketType::from(v) is Request for every v in 4..255, and reading a
\* header whose type byte has a high nibble in 4..15 succeeds and yields the
\* type Request, with the other fields as the bytes give them.
C13_UnknownTypeIsRequest ==
    LET v == hwire[9]
    IN  /\ v \in 4..255 => PacketTypeFrom(v) = "Request"
        /\ (hpc = "read" /\ (v \div 16) \in 4..15) =>
              /\ hrd.some
              /\ hrd.header.ty = "Request"
              /\ hrd.header.options = hwire[10] \div 16
              /\ hrd.header.command = 2

\* a header with type byte 0xFF and all option bits set was read as a Request
C13_Witness ==
    /\ hpc = "read" /\ hwire[9] = 255 /\ hwire[10] = 255
    /\ hrd.some /\ hrd.header.ty = "Request"

\* C14: path_matches is reflexive and symmetric, and holds exactly when the
\* components and the commands are equal, whatever the type, options, error
\* and sequence fields are.
C14_PathMatches ==
    pres.done =>
        /\ pres.aa
        /\ pres.ab = pres.ba
        /\ pres.ab = (pa.component = pb.component /\ pa.command = pb.command)

\* two headers that differ in type, options, error and sequence number match
C14_Witness ==
    /\ pres.done /\ pres.ab /\ pres.ba
    /\ pa.ty # pb.ty /\ pa.options # pb.options
    /\ pa.error # pb.error /\ pa.seq # pb.seq

(***************************************************************************)
(* Properties of the startup and of the accept loop                        *)
(***************************************************************************)
\* C11: while the relay loop of an accepted connection is running, the accept
\* loop can accept a further client connection, so that two sessions can be
\* relaying at the same time.
C11_ConcurrentSessions ==
    \A c \in Clients :
        (Relaying(c) /\ naccepted < MaxClients) => ENABLED ServerAccept(TRUE)

\* what the accept loop does instead: it waits for the handler it spawned, so
\* no two sessions ever relay at the same time
OneSessionAtATime ==
    /\ \A c, d \in Clients : (Relaying(c) /\ Relaying(d)) => c = d
    /\ \A c \in Clients : Relaying(c) => lpc = "join" /\ c = naccepted

\* obtain has returned an error, or start_server has reported one
ObtainFailed ==
    \/ opc = "done" /\ ores.kind # "Ok"
    \/ \E i \in 1..Len(lerr) : lerr[i] = "Failed to create official instance"

\* C12: in a run in which obtain fails the relay port is bound in no state,
\* the failure is reported, and obtain is not called again.
C12_NeverBound ==
    ObtainFailed =>
        /\ listener = "none"
        /\ nobtain = 1
        /\ lpc = "exit" => lerr = <<"Failed to create official instance">>

\* what holds of a run in which obtain fails: the listener that was bound
\* before the call accepts no connection and is dropped when start_server
\* returns, no upstream connection is opened, the failure is reported once,
\* and obtain is not called again
DiscoveryFailureStopsStartup ==
    ObtainFailed =>
        /\ listener = IF lpc = "exit" THEN "dropped" ELSE "bound"
        /\ lpc \in {"obtain", "exit"}
        /\ naccepted = 0 /\ uplog = <<>> /\ instance = NoInstance
        /\ \A c \in Clients : hst[c] = "none"
        /\ nobtain = 1
        /\ lpc = "exit" => lerr = <<"Failed to create official instance">>

(***************************************************************************)
(* Properties of instance discovery                                        *)
(***************************************************************************)
\* the system DNS lookup succeeded and its first address is not a loopback one
SystemUsable ==
    osys.ok /\ osys.addrs # <<>> /\ ~is_loopback(Head(osys.addrs))

C16_LastAnswer ==
    (olook.via = "doh" /\ odoh.ok) =>
        IF odoh.answer # <<>>
        THEN /\ olook.kind = "Ok"
             /\ olook.host = odoh.answer[Len(odoh.answer)]
             /\ \A i \in 1..Len(oconns) : oconns[i].host = odoh.answer[Len(odoh.answer)]
        ELSE /\ olook.kind = "MissingValue"
             /\ opc = "done" /\ ores.kind = "MissingValue"
             /\ oconns = <<>>

\* two different Answer entries: the discovery connection went to the second
C16_Witness ==
    /\ olook.via = "doh" /\ Len(odoh.answer) = 2
    /\ odoh.answer[1] = "159.153.64.175" /\ odoh.answer[2] = "159.153.64.176"
    /\ opc = "request"
    /\ oconns = <<[host |-> "159.153.64.176", port |-> REDIRECT_PORT, ok |-> TRUE]>>

\* C17: when the discovery response decodes to details whose net is the
\* address variant, obtain returns an instance with that host (a numeric host
\* in dotted form) and that port; when net is Unset or Default it fails with
\* MissingAddress and returns no instance.
C17_ObtainResult ==
    (opc = "done" /\ oreq.kind = "Ok") =>
        IF oreq.net.variant = "InstanceAddress"
        THEN /\ ores.kind = "Ok"
             /\ ores.port = oreq.net.port
             /\ oreq.net.host.variant = "Host" => ores.host = oreq.net.host.name
             /\ oreq.net.host.variant = "Address" =>
                    /\ ores.host = IpToString(oreq.net.host.ip)
                    /\ oreq.net.host.ip = V4(159, 153, 64, 175) =>
                          ores.host = "159.153.64.175"
        ELSE ores = ObtainResult("MissingAddress", "", 0)

\* obtain returned the numeric host in dotted form with its port
C17_Witness ==
    /\ opc = "done" /\ oreq.kind = "Ok"
    /\ oreq.net.host.variant = "Address"
    /\ ores = ObtainResult("Ok", "159.153.64.175", 65535)

(***************************************************************************)
(* Properties of the relay loop                                            *)
(***************************************************************************)
\* packets of client c read from `side` whose send is under way (0 or 1)
InFlight(c) == IF held[c] = NoHeld THEN 0 ELSE 1

\* packets of client c whose send has completed, with or without success
Completed(c) ==
    Len(rsent[c]["client"]) + Len(rdrop[c]["client"])
    + Len(rsent[c]["server"]) + Len(rdrop[c]["server"])

\* C18: in a relay session at most one packet is read but not yet forwarded,
\* and while its send has not completed no packet is taken from the client
\* stream or from the upstream stream, and neither stream is read.
C18_HeadOfLine ==
    /\ [](\A c \in Clients :
            /\ (hst[c] = "send") = (held[c] # NoHeld)
            /\ Len(rread[c]["client"]) + Len(rread[c]["server"])
                  = Completed(c) + InFlight(c))
    /\ [][\A c \in Clients :
            hst[c] = "send" => (rread'[c] = rread[c] /\ rbuf'[c] = rbuf[c])]_vars

\* a packet from upstream is being sent to the client while a whole packet of
\* the client waits in the read buffer
C18_Witness ==
    \E c \in Clients :
        /\ hst[c] = "send" /\ held[c].to = "client"
        /\ decode(rbuf[c]["client"]).some
        /\ rread[c]["client"] = <<>>

\* a send of the session of client c has failed and both its streams have
\* ended or failed
Troubled(c) ==
    /\ \E side \in Sides : rfail[c][side]
    /\ \A side \in Sides : rend[c][side] # "open"

\* C19: a session that has entered the relay loop stays in it whatever
\* happens: a failed send, the end of either stream or a read error do not
\* make the handler return (which alone would close the connections); the
\* packet of a failed send is dropped, every packet read is sent exactly
\* once, and a packet that has arrived can still be taken after a send has
\* failed and both streams have ended.
C19_LoopNeverExits ==
    /\ [][\A c \in Clients : Relaying(c) => Relaying(c)']_vars
    /\ [](\A c \in Clients : \A to \in Sides :
            Len(rsent[c][to]) + Len(rdrop[c][to]) + Len(HeldFor(c, to))
                = Len(rread[c][Other(to)]))
    /\ [](\A c \in Clients : \A side \in Sides :
            (Troubled(c) /\ hst[c] = "select" /\ decode(rbuf[c][side]).some)
                => ENABLED RelayRead(c, side))

\* both streams have ended, one with an error, the send of the first packet to
\* upstream failed and the second packet was sent to upstream after it
C19_Witness ==
    \E c \in Clients :
        /\ Relaying(c)
        /\ rend[c]["client"] = "eof" /\ rend[c]["server"] = "err"
        /\ Len(rdrop[c]["server"]) = 1 /\ Len(rsent[c]["server"]) = 1
        /\ rread[c]["client"] = rdrop[c]["server"] \o rsent[c]["server"]

\* the calls of ret.stream() made for client c
UpstreamOf(c) == {i \in 1..Len(uplog) : uplog[i].client = c}

\* what holds of the startup order, apart from the number of calls of obtain
\* in a run whose bind fails: no connection is accepted and no upstream
\* connection is opened before obtain has returned Ok, every handler opens
\* one upstream connection of its own, to the host and port obtain returned
UpstreamPerClient ==
    /\ nobtain <= 1
    /\ (nobtain = 1) = (listener # "none")
    /\ (naccepted > 0 \/ uplog # <<>>) =>
            (nobtain = 1 /\ opc = "off" /\ instance # NoInstance)
    /\ \A i \in 1..Len(uplog) :
            uplog[i].host = instance.host /\ uplog[i].port = instance.port
    /\ \A c \in Clients :
            Cardinality(UpstreamOf(c)) = IF hst[c] \in {"none", "connect"} THEN 0 ELSE 1
    /\ \A c \in Clients : Relaying(c) => \E i \in UpstreamOf(c) : uplog[i].ok

\* C20: obtain is called exactly once per startup; no client connection is
\* accepted and no upstream connection is opened before obtain has returned
\* Ok; every accepted client opens exactly one upstream connection, to the
\* host and port that call returned, and no two sessions share one.
C20_StartupOrdering ==
    /\ lpc = "exit" => nobtain = 1
    /\ UpstreamPerClient

(***************************************************************************)
(* Properties of the discovery session's requests                          *)
(***************************************************************************)
\* requests written to the stream whose call has not returned
Outstanding == nOk - nret

\* C21: in every state of an OfficialSession at most one request is
\* outstanding, one is outstanding exactly while a call waits in
\* expect_response, and a request packet is written only when every earlier
\* request call has returned.
C21_SingleInFlight ==
    /\ [](Outstanding \in {0, 1})
    /\ []((Outstanding = 1) = (spc \in {"wait", "dead"}))
    /\ [][nOk' # nOk => (Outstanding = 0 /\ spc = "idle" /\ nOk' = nOk + 1)]_vars

\* the second request of a session is outstanding, the first call has returned
C21_Witness == nOk = 2 /\ nret = 1 /\ spc = "wait" /\ scur = 1

(***************************************************************************)
(* Properties of response construction                                     *)
(***************************************************************************)
\* C22: the header of new_response(p, c), of response_empty(p) and of
\* response(p, v) equals the header of p in every field (component, command,
\* error, options, sequence) except that the type is Response.
C22_ResponseMirrorsHeader ==
    qres.done =>
        LET mirrored == [qp.header EXCEPT !.ty = "Response"]
        IN  /\ qres.new_response.header = mirrored
            /\ qres.response_empty.header = mirrored
            /\ qres.response.header = mirrored

\* what holds of the three constructors: component, command, error and
\* sequence are those of p, the type is Response, the options are NONE
ResponseDropsOptions ==
    qres.done =>
        LET h == [qp.header EXCEPT !.ty = "Response", !.options = NONE]
        IN  /\ qres.new_response = Packet(h, qres.contents)
            /\ qres.response_empty = Packet(h, <<>>)
            /\ qres.response = Packet(h, qres.contents)

\* C23: in the bytes PacketHeader::write produces, the byte at offset 8 has
\* the type ordinal in its high nibble and a zero low nibble, the byte at
\* offset 9 has the option flags in its high nibble and a zero low nibble,
\* and the fields at offsets 0, 2, 4, 6 and 10 (low 16 bits of the length,
\* component, command, error, sequence) are big-endian: high byte first.
Ordinal(ty) == CHOOSE n \in 0..3 : <<"Request", "Response", "Notify", "Error">>[n + 1] = ty

BigEndianAt(wire, offset, value) ==
    /\ wire[offset + 1] \in 0..255
    /\ wire[offset + 2] \in 0..255
    /\ wire[offset + 1] * 256 + wire[offset + 2] = value

C23_NibblePacking ==
    hpc \in {"written", "read"} =>
        /\ Len(hwire) >= 12
        /\ hwire[9] \div 16 = Ordinal(hh.ty)
        /\ hwire[9] % 16 = 0
        /\ hwire[10] \div 16 = hh.options
        /\ hwire[10] % 16 = 0
        /\ BigEndianAt(hwire, 0, hlen % 65536)
        /\ BigEndianAt(hwire, 2, hh.component)
        /\ BigEndianAt(hwire, 4, hh.command)
        /\ BigEndianAt(hwire, 6, hh.error)
        /\ BigEndianAt(hwire, 10, hh.seq)

C23_Witness ==
    /\ hpc = "written"
    /\ hh = Header(65535, 258, 16388, "Error", 15, 5)
    /\ hlen = 65537
    /\ hwire = <<0, 1, 255, 255, 1, 2, 64, 4, 48, 240, 0, 5, 0, 1>>

\* C24: while expect_response waits, a Response packet on the request's
\* (component, command) ends the wait and is the packet returned, whatever its
\* sequence number; a Request-typed packet, on the path or off it, is consumed
\* like a Notify: the wait goes on and no result is produced.
OnPath(p) == p.header.component = sreq.component /\ p.header.command = sreq.command

C24_SeqAndRequestsIgnored ==
    [][(spc = "wait" /\ sstream # <<>>) =>
          LET p == Head(sstream)
          IN  /\ (p.header.ty = "Response" /\ OnPath(p)) =>
                    /\ spc' = "idle"
                    /\ sres'.kind = "Ok"
                    /\ sres'.packet = p
                    /\ sstream' = Tail(sstream)
              /\ p.header.ty \in {"Request", "Notify"} =>
                    /\ spc' = "wait"
                    /\ sres' = sres
                    /\ sreq' = sreq
                    /\ sstream' = Tail(sstream)]_vars

\* the request with sequence number 0 was answered by the Response with
\* sequence number 7, after a Request-typed packet on the path was discarded
C24_Witness ==
    /\ Returned /\ sres.kind = "Ok"
    /\ sreq.seq = 0 /\ sres.packet.header.seq = 7
    /\ Len(sstart) = 2 /\ sstream = <<>>
    /\ sstart[1].header.ty = "Request" /\ OnPath(sstart[1])
    /\ sres.packet = sstart[2]

\* C25: a request call whose send fails returns the I/O error at once: the
\* session does not wait, reads nothing from the stream and keeps its next id,
\* which is the sequence number the failed request carried; the request made
\* after a failed one carries the failed one's sequence number again.
C25_FailedSendKeepsId ==
    [][(spc = "idle" /\ sid' # sid) => slastOk']_vars
    /\ [][(spc = "idle" /\ ~slastOk' /\ scur' # -1) =>
              /\ spc' = "idle"
              /\ sres' = Result("IO", NoPacket, "none")
              /\ sstream' = sstream
              /\ nret' = nret
              /\ sid' = sid
              /\ scur' = sid']_vars
    /\ [][(spc = "idle" /\ ~slastOk /\ scur # -1) => scur' = scur]_vars

\* the second request of the session, with sequence number 1, failed to send
\* while the stream still holds an unread packet
C25_Witness ==
    /\ spc = "idle" /\ ~slastOk /\ sres.kind = "IO"
    /\ nOk = 1 /\ nret = 1 /\ scur = 1 /\ sid = 1
    /\ Len(sstream) = 1

\* the upstream connections that succeeded before the handler of client c ran
ConnectedBefore(c) == {i \in 1..Len(uplog) : uplog[i].ok /\ uplog[i].client < c}

\* C26: a handler whose upstream connect failed has returned with no session
\* id taken and no packet read or forwarded, the counter stands where it
\* stood (one past the number of sessions started), start_server can take its
\* next step towards the next accept, and a session that did start holds the
\* id 1 + the number of sessions started before it, failed connects not
\* counted.
C26_FailedConnectTakesNoId ==
    /\ SESSION_ID = 1 + Cardinality({i \in 1..Len(uplog) : uplog[i].ok})
    /\ Len(idlog) = Cardinality({i \in 1..Len(uplog) : uplog[i].ok})
    /\ \A i \in 1..Len(uplog) :
          ~uplog[i].ok =>
              LET c == uplog[i].client
              IN  /\ hst[c] = "returned"
                  /\ hid[c] = 0
                  /\ \A j \in 1..Len(idlog) : \A d \in Clients : hid[d] = idlog[j] => d # c
                  /\ \A side \in Sides :
                        /\ rread[c][side] = <<>> /\ rsent[c][side] = <<>>
                        /\ rout[c][side] = <<>> /\ rbuf[c][side] = <<>>
                        /\ rdrop[c][side] = <<>>
                  /\ held[c] = NoHeld
                  /\ (lpc = "join" /\ naccepted = c) => ENABLED ServerJoin
    /\ \A c \in Clients : Relaying(c) => hid[c] = 1 + Cardinality(ConnectedBefore(c))

\* the first handler failed to connect and returned; the second client was
\* accepted, its session took the id 1 and has forwarded a packet upstream
C26_Witness ==
    /\ Len(uplog) = 2 /\ ~uplog[1].ok /\ uplog[2].ok
    /\ hst[1] = "returned" /\ hid[1] = 0
    /\ hst[2] = "select" /\ hid[2] = 1 /\ SESSION_ID = 2
    /\ Len(rsent[2]["server"]) = 1

\* C27: in a relay session whose sends all complete, under a fair race every
\* packet the client sends is eventually sent to upstream and every packet
\* upstream sends is eventually sent to the client, in the order sent,
\* whether the opposite side is silent, has ended or keeps producing.
C27_EventuallyForwarded ==
    /\ [](\A c \in Clients : Relaying(c) => c = LiveClient)
    /\ \A side \in Sides :
          Relaying(LiveClient) ~> (rsent[LiveClient][Other(side)] = rorig[LiveClient][side])

\* both packets upstream sent have reached the client although the client's
\* stream had ended, so that its read resolved with no packet in every race
C27_Witness ==
    /\ hst[1] = "select"
    /\ rend[1]["client"] = "eof" /\ rorig[1]["client"] = <<>>
    /\ Len(rorig[1]["server"]) = 2
    /\ rsent[1]["client"] = rorig[1]["server"]

====
